---- MODULE Spec2Model ----
(***************************************************************************)
(* Model of the dependency-aware task scheduler of                         *)
(* scripts/orchestration/workflow-orchestrator.py                          *)
(* (WorkflowOrchestrator._execute_implementation_phase / _execute_task)    *)
(* and of the plan validation hook hooks/validation/plan-validation.py     *)
(* (check_dependency_cycles / main).                                       *)
(*                                                                         *)
(* A task is a record [task_id, dependencies]; a plan is the list of its   *)
(* tasks in declaration order.  Task objects are identified by their       *)
(* position in plan.tasks; the lists remaining_tasks, completed_tasks,     *)
(* failed_tasks and batch_tasks hold positions.                            *)
(***************************************************************************)
EXTENDS Integers, Sequences, FiniteSets, TLC

\* ------------------------------------------------------------------ bounds
MaxTasks == 3       \* tasks in a plan given to the scheduler
MaxEdges == 2       \* dependency entries in such a plan, all tasks together
MaxLimit == 3       \* values of config["max_concurrent_agents"] tried: 1..MaxLimit
MaxPlanTasks == 3   \* tasks in a plan given to the validation hook
MaxPlanEdges == 3   \* dependency entries in such a plan, all tasks together
MaxTrackIds == 2    \* task ids passed to the progress tracker: 1..MaxTrackIds
MaxCalls == 5       \* tracking calls and clock advances in one history
MaxTicks == 1       \* times the clock advances in one history
MaxFlowTasks == 2   \* tasks in a plan returned by the planning phase
MaxHooks == 2       \* entries of pre_hooks, and of post_hooks

\* ------------------------------------------------------- TaskStatus (enum)
PENDING == "pending"
IN_PROGRESS == "in_progress"
COMPLETED == "completed"
FAILED == "failed"
BLOCKED == "blocked"
TaskStatus == {PENDING, IN_PROGRESS, COMPLETED, FAILED, BLOCKED}

\* What one _execute_task coroutine can hand to asyncio.gather: the agent's
\* result with status "success", a result with any other status, or an
\* exception (gather is called with return_exceptions=True).
Outcomes == {"success", "failure", "exception"}

VARIABLES
    plan,             \* plan.tasks: sequence of [task_id, dependencies]
    max_concurrent,   \* self.config["max_concurrent_agents"]
    status,           \* task.status of every task of the plan
    remaining_tasks,  \* local list remaining_tasks
    completed_tasks,  \* local list completed_tasks
    failed_tasks,     \* local list failed_tasks
    ready,            \* local list ready_tasks of the latest iteration
    batch_tasks,      \* local list batch_tasks of the wave being awaited
    batch_results,    \* per batch position: "unstarted", "running" or an outcome
    pc,               \* position of _execute_implementation_phase
    result,           \* the dict returned by _execute_implementation_phase
    waves,            \* history: the batch_tasks of every wave so far
    outcome,          \* history: the outcome every executed task produced
    errors,           \* main(): the error list of the validation hook
    allow,            \* main(): the "allow" field the hook prints
    vpc,              \* position of the validation hook's main()
    progress,         \* content of reports/workflow_progress.json
    now,              \* datetime.now(), in hours
    action,           \* progress-tracker main(): sys.argv[1] of the latest call
    output,           \* progress-tracker main(): what the latest call printed
    calls,            \* history: number of tracking calls and clock advances
    wpc,              \* execute_workflow: the phase it is in
    trace,            \* history: the phases execute_workflow has entered
    plan_result,      \* execute_workflow: what the planning phase returned
    review_result,    \* execute_workflow: review_result["status"]
    workflow_result,  \* what execute_workflow returned
    pre_hooks,        \* invoke_agent_with_hooks: argument pre_hooks
    post_hooks,       \* invoke_agent_with_hooks: argument post_hooks
    invoked_agent,    \* invoke_agent_with_hooks: argument agent_name
    hook_results,     \* invoke_agent_with_hooks: local hook_results
    agent_result,     \* invoke_agent_with_hooks: local agent_result
    invocations,      \* history: the hook scripts and the agent, as invoked
    hpc,              \* invoke_agent_with_hooks: where the call is
    response          \* what invoke_agent_with_hooks returned

vars == <<plan, max_concurrent, status, remaining_tasks, completed_tasks,
          failed_tasks, ready, batch_tasks, batch_results, pc, result, waves,
          outcome, errors, allow, vpc, progress, now, action, output, calls,
          wpc, trace, plan_result, review_result, workflow_result,
          pre_hooks, post_hooks, invoked_agent, hook_results, agent_result,
          invocations, hpc, response>>

schedVars == <<max_concurrent, status, remaining_tasks, completed_tasks,
               failed_tasks, ready, batch_tasks, batch_results, pc, result, waves,
               outcome>>

hookVars == <<errors, allow, vpc>>

trackVars == <<progress, now, action, output, calls>>

flowVars == <<wpc, trace, plan_result, review_result, workflow_result>>

sdkVars == <<pre_hooks, post_hooks, invoked_agent, hook_results, agent_result,
             invocations, hpc, response>>

\* ----------------------------------------------------------------- helpers
Range(s) == {s[k] : k \in DOMAIN s}

Min(a, b) == IF a <= b THEN a ELSE b

\* s[:k] for k >= 0
Take(s, k) == SubSeq(s, 1, Min(k, Len(s)))

\* faulty variant of ListRemove: list.pop(0)
ListRemove_pop_first(s, x) == Tail(s)

\* faulty variant of ListRemove: the removal is left out
ListRemove_nothing(s, x) == s

\* list.remove(x): drops the first element equal to x
RECURSIVE ListRemove(_, _)
ListRemove(s, x) ==
    IF s = <<>> THEN <<>>
    ELSE IF Head(s) = x THEN Tail(s)
    ELSE <<Head(s)>> \o ListRemove(Tail(s), x)

\* the ascending list of a set of integers
RECURSIVE SortedSeq(_)
SortedSeq(S) ==
    IF S = {} THEN <<>>
    ELSE LET m == CHOOSE x \in S : \A y \in S : x <= y
         IN  <<m>> \o SortedSeq(S \ {m})

\* all lists without repetition over S of length at most n
InjSeqs(S, n) ==
    UNION {{q \in [1..k -> S] : \A i, j \in 1..k : q[i] = q[j] => i = j} :
           k \in 0..n}

\* ------------------------------------------------------------ input plans
\* Task ids are numbered in order of first appearance (a renaming of the ids
\* changes nothing the code does: it only compares ids); ids may repeat.
Canonical(ids) ==
    \A k \in DOMAIN ids :
        /\ ids[k] >= 1
        /\ \A m \in 1..(ids[k] - 1) : \E j \in 1..(k - 1) : ids[j] = m

IdLists(n) == {ids \in [1..n -> 1..n] : Canonical(ids)}

\* Ids a dependency list may name: every id a plan of n tasks can use plus
\* one id, n + 1, that no task has.
DepIds(n) == 1..(n + 1)

\* Dependency lists tried by the scheduler, which only tests membership of
\* each entry (line 263): one list per set of ids.
SchedDepLists(n) ==
    {SortedSeq(S) : S \in {T \in SUBSET DepIds(n) : Cardinality(T) <= MaxEdges}}

\* Dependency lists tried by the validation hook, whose traversal follows the
\* order of the list (line 108).
HookDepLists(n) == InjSeqs(DepIds(n), Min(MaxPlanEdges, n + 1))

\* the dependency lists of tasks 1..k, at most budget entries together
RECURSIVE DepAssignments(_, _, _)
DepAssignments(lists, k, budget) ==
    IF k = 0 THEN {<<>>}
    ELSE UNION {{Append(before, d) :
                   before \in DepAssignments(lists, k - 1, budget - Len(d))} :
                d \in {l \in lists : Len(l) <= budget}}

MakePlan(ids, deps) ==
    [k \in DOMAIN ids |-> [task_id |-> ids[k], dependencies |-> deps[k]]]

\* the plans of n tasks with dependency lists from lists, at most edges
\* entries together
Plans(n, lists, edges) ==
    {MakePlan(ids, deps) : ids \in IdLists(n),
                           deps \in DepAssignments(lists, n, edges)}

Tasks == DOMAIN plan

\* ------------------------------------------------------ readiness (260-264)
\* [t.task_id for t in completed_tasks]
CompletedIds(completed) == {plan[c].task_id : c \in Range(completed)}

\* faulty variant of DepsSatisfied: any(...) in place of all(...)
DepsSatisfied_any(t, completed) ==
    \E k \in DOMAIN plan[t].dependencies :
        plan[t].dependencies[k] \in CompletedIds(completed)

\* faulty variant of DepsSatisfied: a dependency counts once its task has
\* been executed, whether it succeeded or not
DepsSatisfied_finished(t, completed) ==
    \A k \in DOMAIN plan[t].dependencies :
        plan[t].dependencies[k]
            \in CompletedIds(completed) \cup CompletedIds(failed_tasks)

\* all(dep in [t.task_id for t in completed_tasks] for dep in task.dependencies)
DepsSatisfied(t, completed) ==
    \A k \in DOMAIN plan[t].dependencies :
        plan[t].dependencies[k] \in CompletedIds(completed)

\* faulty variant of ready_tasks: the dependency test is left out
ready_tasks_ignoring_deps(remaining, completed) == remaining

ready_tasks(remaining, completed) ==
    SelectSeq(remaining, LAMBDA t : DepsSatisfied(t, completed))

\* faulty variant of select_batch: the slice is left out
select_batch_unbounded(rdy, limit) == rdy

\* faulty variant of select_batch: ready_tasks[-max_concurrent:]
select_batch_from_end(rdy, limit) ==
    SubSeq(rdy, Len(rdy) - Min(limit, Len(rdy)) + 1, Len(rdy))

\* batch_tasks = ready_tasks[:max_concurrent]
select_batch(rdy, limit) == Take(rdy, limit)

\* ------------------------------------------- processing of a wave (278-296)
\* faulty variant of process_results: failed_tasks.append(task) is left out
RECURSIVE process_results_forgetting_failures(_, _, _, _)
process_results_forgetting_failures(batch, results, k, st) ==
    IF k > Len(batch) THEN st
    ELSE LET task == batch[k]
             rem  == ListRemove(st.remaining, task)
         IN  IF results[k] = "success"
             THEN process_results_forgetting_failures(batch, results, k + 1,
                    [remaining |-> rem,
                     completed |-> Append(st.completed, task),
                     failed    |-> st.failed,
                     status    |-> [st.status EXCEPT ![task] = COMPLETED]])
             ELSE process_results_forgetting_failures(batch, results, k + 1,
                    [remaining |-> rem,
                     completed |-> st.completed,
                     failed    |-> st.failed,
                     status    |-> [st.status EXCEPT ![task] = FAILED]])

\* faulty variant of process_results: completed_tasks.append(task) is done
\* for every task of the batch
RECURSIVE process_results_completing_failures(_, _, _, _)
process_results_completing_failures(batch, results, k, st) ==
    IF k > Len(batch) THEN st
    ELSE LET task == batch[k]
             rem  == ListRemove(st.remaining, task)
         IN  IF results[k] = "success"
             THEN process_results_completing_failures(batch, results, k + 1,
                    [remaining |-> rem,
                     completed |-> Append(st.completed, task),
                     failed    |-> st.failed,
                     status    |-> [st.status EXCEPT ![task] = COMPLETED]])
             ELSE process_results_completing_failures(batch, results, k + 1,
                    [remaining |-> rem,
                     completed |-> Append(st.completed, task),
                     failed    |-> Append(st.failed, task),
                     status    |-> [st.status EXCEPT ![task] = FAILED]])

\* faulty variant of process_results: completed_tasks.insert(0, task)
RECURSIVE process_results_prepending(_, _, _, _)
process_results_prepending(batch, results, k, st) ==
    IF k > Len(batch) THEN st
    ELSE LET task == batch[k]
             rem  == ListRemove(st.remaining, task)
         IN  IF results[k] = "success"
             THEN process_results_prepending(batch, results, k + 1,
                    [remaining |-> rem,
                     completed |-> <<task>> \o st.completed,
                     failed    |-> st.failed,
                     status    |-> [st.status EXCEPT ![task] = COMPLETED]])
             ELSE process_results_prepending(batch, results, k + 1,
                    [remaining |-> rem,
                     completed |-> st.completed,
                     failed    |-> <<task>> \o st.failed,
                     status    |-> [st.status EXCEPT ![task] = FAILED]])

\* The for loop over zip(batch_tasks, batch_results), from position k on.
\* st is [remaining, completed, failed, status].
RECURSIVE process_results(_, _, _, _)
process_results(batch, results, k, st) ==
    IF k > Len(batch) THEN st
    ELSE LET task == batch[k]
             rem  == ListRemove(st.remaining, task)
         IN  IF results[k] = "success"
             THEN process_results(batch, results, k + 1,
                    [remaining |-> rem,
                     completed |-> Append(st.completed, task),
                     failed    |-> st.failed,
                     status    |-> [st.status EXCEPT ![task] = COMPLETED]])
             ELSE process_results(batch, results, k + 1,
                    [remaining |-> rem,
                     completed |-> st.completed,
                     failed    |-> Append(st.failed, task),
                     status    |-> [st.status EXCEPT ![task] = FAILED]])

\* faulty variant of implementation_result: the factor 100 is left out
implementation_result_fraction(completed, failed) ==
    IF Len(plan) = 0
    THEN [status |-> "ZeroDivisionError"]
    ELSE [status          |-> IF failed = <<>> THEN "completed" ELSE "partial",
          completed_tasks |-> completed,
          failed_tasks    |-> failed,
          total_tasks     |-> Len(plan),
          success_rate    |-> <<Len(completed), Len(plan)>>]

\* faulty variant of implementation_result: the rate is taken over the
\* executed tasks, len(completed_tasks) + len(failed_tasks)
implementation_result_of_executed(completed, failed) ==
    IF Len(plan) = 0
    THEN [status |-> "ZeroDivisionError"]
    ELSE [status          |-> IF failed = <<>> THEN "completed" ELSE "partial",
          completed_tasks |-> completed,
          failed_tasks    |-> failed,
          total_tasks     |-> Len(plan),
          success_rate    |-> <<Len(completed) * 100,
                                Len(completed) + Len(failed)>>]

\* The returned dict (298-305).  len(completed_tasks) / len(plan.tasks) * 100
\* is kept as the fraction <<numerator, denominator>>; with no task the
\* division raises ZeroDivisionError and nothing is returned.
implementation_result(completed, failed) ==
    IF Len(plan) = 0
    THEN [status |-> "ZeroDivisionError"]
    ELSE [status          |-> IF failed = <<>> THEN "completed" ELSE "partial",
          completed_tasks |-> completed,
          failed_tasks    |-> failed,
          total_tasks     |-> Len(plan),
          success_rate    |-> <<Len(completed) * 100, Len(plan)>>]

NoResult == [status |-> "none"]

\* --------------------------------------- progress-tracker.py: stored data
\* load_progress_data (20-36) when the file does not exist yet.  A dict is
\* kept as the list of its keys in insertion order and the value of every
\* key; "workflows" is never written and is left out.
default_progress ==
    [tasks   |-> [keys |-> <<>>, value |-> <<>>],
     agents  |-> [keys |-> <<>>, value |-> <<>>],
     metrics |-> [total_tasks       |-> 0,
                  completed_tasks   |-> 0,
                  in_progress_tasks |-> 0,
                  blocked_tasks     |-> 0,
                  total_time_spent  |-> 0]]

NoOutput == [kind |-> "none"]

\* the tracker has not been called
TrackIdle ==
    /\ progress = default_progress
    /\ now = 0
    /\ action = "none"
    /\ output = NoOutput
    /\ calls = 0

\* ------------------------------------------------- scheduler: the actions
HookIdle ==
    /\ errors = <<>>
    /\ allow = FALSE
    /\ vpc = "idle"

NoHookResults == [pre_hooks |-> <<>>, post_hooks |-> <<>>]

\* execute_workflow is not running
FlowIdle ==
    /\ wpc = "idle"
    /\ trace = <<>>
    /\ plan_result = "none"
    /\ review_result = "none"
    /\ workflow_result = NoResult

\* invoke_agent_with_hooks is not running
SdkIdle ==
    /\ pre_hooks = <<>>
    /\ post_hooks = <<>>
    /\ invoked_agent = "none"
    /\ hook_results = NoHookResults
    /\ agent_result = NoResult
    /\ invocations = <<>>
    /\ hpc = "idle"
    /\ response = NoResult

\* _execute_implementation_phase up to the first test of the while loop
\* (247-257), for every plan and every limit tried.
Init ==
    /\ \E n \in 0..MaxTasks : plan \in Plans(n, SchedDepLists(n), MaxEdges)
    /\ max_concurrent \in 1..MaxLimit
    /\ status = [t \in DOMAIN plan |-> PENDING]
    /\ remaining_tasks = [k \in DOMAIN plan |-> k]
    /\ completed_tasks = <<>>
    /\ failed_tasks = <<>>
    /\ ready = <<>>
    /\ batch_tasks = <<>>
    /\ batch_results = <<>>
    /\ pc = "loop"
    /\ result = NoResult
    /\ waves = <<>>
    /\ outcome = [t \in DOMAIN plan |-> "none"]
    /\ HookIdle
    /\ TrackIdle
    /\ FlowIdle
    /\ SdkIdle

\* faulty variant of return_exceptions: gather's default
return_exceptions_omitted == FALSE

\* asyncio.gather(..., return_exceptions=True) (275)
return_exceptions == TRUE

\* 259-276: the loop test, the ready list, the batch and the call of gather,
\* which schedules one _execute_task coroutine per batch task.
StartWave ==
    /\ pc = "loop"
    /\ remaining_tasks # <<>>
    /\ LET rdy   == ready_tasks(remaining_tasks, completed_tasks)
           batch == select_batch(rdy, max_concurrent)
       IN  /\ rdy # <<>>
           /\ ready' = rdy
           /\ batch_tasks' = batch
           /\ batch_results' = [k \in DOMAIN batch |-> "unstarted"]
           /\ waves' = Append(waves, batch)
    /\ pc' = "gather"
    /\ UNCHANGED <<plan, max_concurrent, status, remaining_tasks,
                   completed_tasks, failed_tasks, result, outcome,
                   hookVars, trackVars, flowVars, sdkVars>>

\* faulty variant of StartTask: task.status is not set
StartTask_without_status(k) ==
    /\ pc = "gather"
    /\ k \in DOMAIN batch_tasks
    /\ batch_results[k] = "unstarted"
    /\ \A j \in 1..(k - 1) : batch_results[j] # "unstarted"
    /\ batch_results' = [batch_results EXCEPT ![k] = "running"]
    /\ UNCHANGED <<plan, max_concurrent, status, remaining_tasks,
                   completed_tasks, failed_tasks, ready, batch_tasks, pc,
                   result, waves, outcome, hookVars, trackVars, flowVars, sdkVars>>

\* _execute_task, first step (309-312).  The event loop starts the
\* coroutines of one gather in the order they were passed.
StartTask(k) ==
    /\ pc = "gather"
    /\ k \in DOMAIN batch_tasks
    /\ batch_results[k] = "unstarted"
    /\ \A j \in 1..(k - 1) : batch_results[j] # "unstarted"
    /\ status' = [status EXCEPT ![batch_tasks[k]] = IN_PROGRESS]
    /\ batch_results' = [batch_results EXCEPT ![k] = "running"]
    /\ UNCHANGED <<plan, max_concurrent, remaining_tasks, completed_tasks,
                   failed_tasks, ready, batch_tasks, pc, result, waves,
                   outcome, hookVars, trackVars, flowVars, sdkVars>>

\* faulty variant of FinishTask: the coroutine appends itself to
\* completed_tasks when it succeeds
FinishTask_recording(k, o) ==
    /\ pc = "gather"
    /\ k \in DOMAIN batch_tasks
    /\ batch_results[k] = "running"
    /\ batch_results' = [batch_results EXCEPT ![k] = o]
    /\ outcome' = [outcome EXCEPT ![batch_tasks[k]] = o]
    /\ completed_tasks' = IF o = "success"
                          THEN Append(completed_tasks, batch_tasks[k])
                          ELSE completed_tasks
    /\ UNCHANGED <<plan, max_concurrent, status, remaining_tasks,
                   failed_tasks, ready, batch_tasks, pc,
                   result, waves, hookVars, trackVars, flowVars, sdkVars>>

\* _execute_task, rest (314-354): the coroutine returns the agent's result
\* or raises; either way gather stores what it produced.  What the awaited
\* tracker hooks and the agent invocation do is not decided here: every
\* outcome is possible for every task (an exception includes one raised by
\* awaiting a hook, line 315, before the agent is invoked).
FinishTask(k, o) ==
    /\ pc = "gather"
    /\ k \in DOMAIN batch_tasks
    /\ batch_results[k] = "running"
    /\ batch_results' = [batch_results EXCEPT ![k] = o]
    /\ outcome' = [outcome EXCEPT ![batch_tasks[k]] = o]
    /\ UNCHANGED <<plan, max_concurrent, status, remaining_tasks,
                   completed_tasks, failed_tasks, ready, batch_tasks, pc,
                   result, waves, hookVars, trackVars, flowVars, sdkVars>>

\* faulty variant of gather_done: asyncio.wait(..., FIRST_COMPLETED)
gather_done_first(results) ==
    \E k \in DOMAIN results : results[k] \in Outcomes

\* await asyncio.gather(...) (273-276) returns when every coroutine of the
\* batch has returned or raised
gather_done(results) ==
    \A k \in DOMAIN results : results[k] \in Outcomes

\* gather returns once every coroutine has produced its outcome; the for
\* loop 278-296 then applies the outcomes.  Without return_exceptions the
\* first exception would leave the function instead.
ProcessResults ==
    /\ pc = "gather"
    /\ IF return_exceptions
       THEN /\ gather_done(batch_results)
            /\ LET st == process_results(batch_tasks, batch_results, 1,
                            [remaining |-> remaining_tasks,
                             completed |-> completed_tasks,
                             failed    |-> failed_tasks,
                             status    |-> status])
               IN  /\ remaining_tasks' = st.remaining
                   /\ completed_tasks' = st.completed
                   /\ failed_tasks' = st.failed
                   /\ status' = st.status
            /\ pc' = "loop"
            /\ UNCHANGED result
       ELSE /\ \/ gather_done(batch_results)
               \/ \E k \in DOMAIN batch_results : batch_results[k] = "exception"
            /\ IF \E k \in DOMAIN batch_results : batch_results[k] = "exception"
               THEN /\ pc' = "done"
                    /\ result' = [status |-> "exception"]
                    /\ UNCHANGED <<remaining_tasks, completed_tasks,
                                   failed_tasks, status>>
               ELSE /\ LET st == process_results(batch_tasks, batch_results, 1,
                                    [remaining |-> remaining_tasks,
                                     completed |-> completed_tasks,
                                     failed    |-> failed_tasks,
                                     status    |-> status])
                       IN  /\ remaining_tasks' = st.remaining
                           /\ completed_tasks' = st.completed
                           /\ failed_tasks' = st.failed
                           /\ status' = st.status
                    /\ pc' = "loop"
                    /\ UNCHANGED result
    /\ UNCHANGED <<plan, max_concurrent, ready, batch_tasks, batch_results,
                   waves, outcome, hookVars, trackVars, flowVars, sdkVars>>

\* faulty variant of Stalled: the break is left out and the loop goes round
Stalled_without_break ==
    /\ pc = "loop"
    /\ remaining_tasks # <<>>
    /\ ready_tasks(remaining_tasks, completed_tasks) = <<>>
    /\ ready' = <<>>
    /\ UNCHANGED <<plan, max_concurrent, status, remaining_tasks,
                   completed_tasks, failed_tasks, batch_tasks, batch_results,
                   pc, result, waves, outcome, hookVars, trackVars, flowVars, sdkVars>>

\* 266-269 and 298-305: no task is ready although some remain; the loop is
\* left with break and the result is built.
Stalled ==
    /\ pc = "loop"
    /\ remaining_tasks # <<>>
    /\ ready_tasks(remaining_tasks, completed_tasks) = <<>>
    /\ ready' = <<>>
    /\ result' = implementation_result(completed_tasks, failed_tasks)
    /\ pc' = "done"
    /\ UNCHANGED <<plan, max_concurrent, status, remaining_tasks,
                   completed_tasks, failed_tasks, batch_tasks, batch_results,
                   waves, outcome, hookVars, trackVars, flowVars, sdkVars>>

\* 259 and 298-305: remaining_tasks is empty; the result is built.
Return ==
    /\ pc = "loop"
    /\ remaining_tasks = <<>>
    /\ result' = implementation_result(completed_tasks, failed_tasks)
    /\ pc' = "done"
    /\ UNCHANGED <<plan, max_concurrent, status, remaining_tasks,
                   completed_tasks, failed_tasks, ready, batch_tasks,
                   batch_results, waves, outcome, hookVars, trackVars, flowVars, sdkVars>>

Next ==
    \/ StartWave
    \/ \E k \in 1..MaxTasks : StartTask(k)
    \/ \E k \in 1..MaxTasks, o \in Outcomes : FinishTask(k, o)
    \/ ProcessResults
    \/ Stalled
    \/ Return

Spec == Init /\ [][Next]_vars

\* ------------------------------------- validation hook: plan-validation.py
\* task_dependencies (85-93): a dict, kept as the list of its keys in
\* insertion order and the value of every key.  Assigning to a key that is
\* already present keeps its place and replaces its value.
RECURSIVE dict_keys(_, _)
dict_keys(p, k) ==
    IF k = 0 THEN <<>>
    ELSE LET before == dict_keys(p, k - 1)
         IN  IF p[k].task_id \in Range(before) THEN before
             ELSE Append(before, p[k].task_id)

task_dependencies(p) ==
    [keys  |-> dict_keys(p, Len(p)),
     value |-> [id \in {p[k].task_id : k \in DOMAIN p} |->
                  LET last == CHOOSE k \in DOMAIN p :
                                /\ p[k].task_id = id
                                /\ \A j \in DOMAIN p : p[j].task_id = id => j <= k
                  IN  p[last].dependencies]]

\* task_dependencies.get(node, [])
dict_get(td, node) ==
    IF node \in DOMAIN td.value THEN td.value[node] ELSE <<>>

\* has_cycle (99-113).  visited and rec_stack are the two sets the closure
\* shares with its caller; the operator returns them with the return value.
\* visit_dependencies is the for loop 108-110 from position k on, followed
\* by 112-113.
RECURSIVE has_cycle(_, _, _, _)
RECURSIVE visit_dependencies_keeping_stack(_, _, _, _, _)
RECURSIVE visit_dependencies(_, _, _, _, _)

has_cycle(td, node, visited, rec_stack) ==
    IF node \in rec_stack
    THEN [ret |-> TRUE, visited |-> visited, rec_stack |-> rec_stack]
    ELSE IF node \in visited
    THEN [ret |-> FALSE, visited |-> visited, rec_stack |-> rec_stack]
    ELSE visit_dependencies(td, node, 1, visited \cup {node},
                            rec_stack \cup {node})

\* faulty variant of visit_dependencies: rec_stack.remove(node) is left out
visit_dependencies_keeping_stack(td, node, k, visited, rec_stack) ==
    LET deps == dict_get(td, node)
    IN  IF k > Len(deps)
        THEN [ret |-> FALSE, visited |-> visited, rec_stack |-> rec_stack]
        ELSE LET r == has_cycle(td, deps[k], visited, rec_stack)
             IN  IF r.ret THEN r
                 ELSE visit_dependencies_keeping_stack(td, node, k + 1,
                                                       r.visited, r.rec_stack)

visit_dependencies(td, node, k, visited, rec_stack) ==
    LET deps == dict_get(td, node)
    IN  IF k > Len(deps)
        THEN [ret |-> FALSE, visited |-> visited,
              rec_stack |-> rec_stack \ {node}]
        ELSE LET r == has_cycle(td, deps[k], visited, rec_stack)
             IN  IF r.ret THEN r
                 ELSE visit_dependencies(td, node, k + 1,
                                         r.visited, r.rec_stack)

\* An entry of the error list: "Circular dependency detected involving
\* task: <task_id>" (117).
CycleError(id) == [kind |-> "cycle", task_id |-> id]

\* The for loop 115-117 from key k on.
RECURSIVE check_keys(_, _, _, _, _)
check_keys(td, k, visited, rec_stack, errs) ==
    IF k > Len(td.keys) THEN errs
    ELSE LET id == td.keys[k]
         IN  IF id \in visited
             THEN check_keys(td, k + 1, visited, rec_stack, errs)
             ELSE LET r == has_cycle(td, id, visited, rec_stack)
                  IN  check_keys(td, k + 1, r.visited, r.rec_stack,
                                 IF r.ret THEN Append(errs, CycleError(id))
                                 ELSE errs)

\* check_dependency_cycles (82-119)
check_dependency_cycles(p) ==
    check_keys(task_dependencies(p), 1, {}, {}, <<>>)

\* validate_plan_structure (14-80) looks at the presence of the required
\* fields, the agent names and the success criteria only; the plans tried
\* here carry all of them, so it returns no error.
validate_plan_structure(p) == <<>>

SchedIdle ==
    /\ max_concurrent = 1
    /\ status = [t \in DOMAIN plan |-> PENDING]
    /\ remaining_tasks = [k \in DOMAIN plan |-> k]
    /\ completed_tasks = <<>>
    /\ failed_tasks = <<>>
    /\ ready = <<>>
    /\ batch_tasks = <<>>
    /\ batch_results = <<>>
    /\ pc = "idle"
    /\ result = NoResult
    /\ waves = <<>>
    /\ outcome = [t \in DOMAIN plan |-> "none"]

\* main() after the plan file has been loaded (139-146)
HookInit ==
    /\ \E n \in 0..MaxPlanTasks : plan \in Plans(n, HookDepLists(n), MaxPlanEdges)
    /\ errors = <<>>
    /\ allow = FALSE
    /\ vpc = "loaded"
    /\ SchedIdle
    /\ TrackIdle
    /\ FlowIdle
    /\ SdkIdle

\* main() 147-164: both checks run, then the verdict is printed.
Validate ==
    /\ vpc = "loaded"
    /\ LET errs == validate_plan_structure(plan) \o check_dependency_cycles(plan)
       IN  /\ errors' = errs
           /\ allow' = (errs = <<>>)
    /\ vpc' = "validated"
    /\ UNCHANGED <<plan, schedVars, trackVars, flowVars, sdkVars>>

HookNext == Validate

HookSpec == HookInit /\ [][HookNext]_vars

\* ------------------------------------ progress tracker: progress-tracker.py
\* One action is one run of main() (260-326): the data file is loaded, the
\* call is applied and, for the tracking calls, the file is saved.
\* Times are whole hours.  Of a task record the fields the tracker reads
\* back are kept (agent, status and the timestamps).
LongRunningHours == 24
ImbalanceMargin == 2

\* the clock advances by more than the long-running threshold
TickHours == LongRunningHours + 1

\* data.get("task_id") and data.get("agent") of the calls tried
TrackIds == 1..MaxTrackIds
Agents == {"coder-backend", "coder-frontend"}

has_key(d, k) == k \in Range(d.keys)

\* d[k] = v
dict_set(d, k, v) ==
    [keys  |-> IF has_key(d, k) THEN d.keys ELSE Append(d.keys, k),
     value |-> (k :> v) @@ d.value]

\* save_progress_data (38-42): the file content written
save_progress_data(data) == [last_updated |-> now] @@ data

\* the statistics of an agent that is not known yet (63-69)
new_agent_stats ==
    [active_tasks      |-> 0,
     completed_tasks   |-> 0,
     total_time_spent  |-> 0,
     average_task_time |-> <<0, 1>>]

\* track_task_start (44-74)
track_task_start(data, task_id, agent_name) ==
    LET task_record == [task_id    |-> task_id,
                        agent      |-> agent_name,
                        status     |-> "in_progress",
                        started_at |-> now]
        agents0 == IF has_key(data.agents, agent_name) THEN data.agents
                   ELSE dict_set(data.agents, agent_name, new_agent_stats)
        stats   == agents0.value[agent_name]
    IN  save_progress_data(
          [data EXCEPT
             !.tasks = dict_set(@, task_id, task_record),
             !.agents = dict_set(agents0, agent_name,
                                 [stats EXCEPT !.active_tasks = @ + 1]),
             !.metrics.in_progress_tasks = @ + 1])

\* track_task_completion (76-111); average_task_time is kept as the
\* fraction <<total_time, completed>>
track_task_completion(data, task_id) ==
    IF has_key(data.tasks, task_id)
    THEN LET task       == data.tasks.value[task_id]
             time_spent == now - task.started_at
             agent_name == task.agent
             stats      == data.agents.value[agent_name]
             completed  == stats.completed_tasks + 1
             total_time == stats.total_time_spent + time_spent
         IN  save_progress_data(
               [data EXCEPT
                  !.tasks = dict_set(@, task_id,
                               [status           |-> "completed",
                                completed_at     |-> now,
                                time_spent_hours |-> time_spent] @@ task),
                  !.agents = IF has_key(@, agent_name)
                             THEN dict_set(@, agent_name,
                                    [active_tasks      |-> stats.active_tasks - 1,
                                     completed_tasks   |-> completed,
                                     total_time_spent  |-> total_time,
                                     average_task_time |->
                                         IF completed > 0
                                         THEN <<total_time, completed>>
                                         ELSE <<0, 1>>])
                             ELSE @,
                  !.metrics.completed_tasks = @ + 1,
                  !.metrics.in_progress_tasks = @ - 1])
    ELSE save_progress_data(data)

\* track_task_blocked (113-126)
track_task_blocked(data, task_id) ==
    IF has_key(data.tasks, task_id)
    THEN LET task == data.tasks.value[task_id]
         IN  save_progress_data(
               [data EXCEPT
                  !.tasks = dict_set(@, task_id,
                               [status     |-> "blocked",
                                blocked_at |-> now] @@ task),
                  !.metrics.blocked_tasks = @ + 1,
                  !.metrics.in_progress_tasks = @ - 1])
    ELSE save_progress_data(data)

\* the entries a report or an issue list makes of the task ids ks
report_entries(data, ks) ==
    [k \in DOMAIN ks |-> [task_id |-> ks[k],
                          agent   |-> data.tasks.value[ks[k]].agent]]

\* generate_status_report (146-211); rates are kept as fractions
generate_status_report(data) ==
    LET ks      == data.tasks.keys
        st(id)  == data.tasks.value[id].status
        total   == data.metrics.total_tasks
        done    == data.metrics.completed_tasks
        recent(id) ==
            /\ st(id) = "completed"
            /\ data.tasks.value[id].completed_at > now - 7 * 24
    IN  [generated_at       |-> now,
         summary            |-> data.metrics,
         active_tasks       |->
             report_entries(data, SelectSeq(ks, LAMBDA id : st(id) = "in_progress")),
         recent_completions |->
             report_entries(data, SelectSeq(ks, recent)),
         blocked_tasks      |->
             report_entries(data, SelectSeq(ks, LAMBDA id : st(id) = "blocked")),
         agent_performance  |-> data.agents,
         timeline_analysis  |->
             IF total > 0
             THEN IF done > 0
                  THEN [completion_rate |-> <<done * 100, total>>,
                        estimated_completion_hours |->
                            <<(total - done) * data.metrics.total_time_spent, done>>]
                  ELSE [completion_rate |-> <<done * 100, total>>]
             ELSE <<>>]

SetMax(S) == CHOOSE x \in S : \A y \in S : y <= x

SetMin(S) == CHOOSE x \in S : \A y \in S : x <= y

\* faulty variant of check_for_issues: max_workload >= min_workload + 2
check_for_issues_at_margin(data) ==
    LET ks == data.tasks.keys
        long_running(id) ==
            /\ data.tasks.value[id].status = "in_progress"
            /\ now - data.tasks.value[id].started_at > LongRunningHours
        long == SelectSeq(ks, long_running)
        blocked_count == data.metrics.blocked_tasks
        agent_workloads ==
            {data.agents.value[a].active_tasks : a \in Range(data.agents.keys)}
    IN  [k \in DOMAIN long |-> [type |-> "long_running_task", task_id |-> long[k]]]
        \o (IF blocked_count > 0
            THEN <<[type |-> "blocked_tasks", count |-> blocked_count]>>
            ELSE <<>>)
        \o (IF /\ agent_workloads # {}
               /\ SetMax(agent_workloads) >= SetMin(agent_workloads) + ImbalanceMargin
            THEN <<[type |-> "workload_imbalance"]>>
            ELSE <<>>)

\* check_for_issues (213-258)
check_for_issues(data) ==
    LET ks == data.tasks.keys
        long_running(id) ==
            /\ data.tasks.value[id].status = "in_progress"
            /\ now - data.tasks.value[id].started_at > LongRunningHours
        long == SelectSeq(ks, long_running)
        blocked_count == data.metrics.blocked_tasks
        agent_workloads ==
            {data.agents.value[a].active_tasks : a \in Range(data.agents.keys)}
    IN  [k \in DOMAIN long |-> [type |-> "long_running_task", task_id |-> long[k]]]
        \o (IF blocked_count > 0
            THEN <<[type |-> "blocked_tasks", count |-> blocked_count]>>
            ELSE <<>>)
        \o (IF /\ agent_workloads # {}
               /\ SetMax(agent_workloads) > SetMin(agent_workloads) + ImbalanceMargin
            THEN <<[type |-> "workload_imbalance"]>>
            ELSE <<>>)

\* the tracker alone: no plan is being scheduled or validated
TrackerInit ==
    /\ plan = <<>>
    /\ SchedIdle
    /\ HookIdle
    /\ TrackIdle
    /\ FlowIdle
    /\ SdkIdle

\* what main() prints after a tracking call (315-319)
Tracked == [kind |-> "message"]

\* main() with action "task_start" (275-279)
TaskStart(task_id, agent_name) ==
    /\ calls < MaxCalls
    /\ progress' = track_task_start(progress, task_id, agent_name)
    /\ action' = "task_start"
    /\ output' = Tracked
    /\ calls' = calls + 1
    /\ UNCHANGED <<plan, schedVars, hookVars, flowVars, sdkVars, now>>

\* main() with action "task_complete" (281-284)
TaskComplete(task_id) ==
    /\ calls < MaxCalls
    /\ progress' = track_task_completion(progress, task_id)
    /\ action' = "task_complete"
    /\ output' = Tracked
    /\ calls' = calls + 1
    /\ UNCHANGED <<plan, schedVars, hookVars, flowVars, sdkVars, now>>

\* main() with action "task_blocked" (286-289)
TaskBlocked(task_id) ==
    /\ calls < MaxCalls
    /\ progress' = track_task_blocked(progress, task_id)
    /\ action' = "task_blocked"
    /\ output' = Tracked
    /\ calls' = calls + 1
    /\ UNCHANGED <<plan, schedVars, hookVars, flowVars, sdkVars, now>>

\* main() with action "status_report" (297-304): nothing is saved
StatusReport ==
    /\ action' = "status_report"
    /\ output' = [kind |-> "report", report |-> generate_status_report(progress)]
    /\ UNCHANGED <<plan, schedVars, hookVars, flowVars, sdkVars, progress, now, calls>>

\* faulty variant of CheckIssues: the data is saved after the check
CheckIssues_saving ==
    /\ action' = "check_issues"
    /\ output' = [kind |-> "issues", issues |-> check_for_issues(progress)]
    /\ progress' = save_progress_data(progress)
    /\ UNCHANGED <<plan, schedVars, hookVars, flowVars, sdkVars, now, calls>>

\* main() with action "check_issues" (306-313): nothing is saved
CheckIssues ==
    /\ action' = "check_issues"
    /\ output' = [kind |-> "issues", issues |-> check_for_issues(progress)]
    /\ UNCHANGED <<plan, schedVars, hookVars, flowVars, sdkVars, progress, now, calls>>

\* time passes between two calls
Tick ==
    /\ calls < MaxCalls
    /\ now < MaxTicks * TickHours
    /\ now' = now + TickHours
    /\ calls' = calls + 1
    /\ UNCHANGED <<plan, schedVars, hookVars, flowVars, sdkVars, progress,
                   action, output>>

TrackerNext ==
    \/ \E id \in TrackIds, a \in Agents : TaskStart(id, a)
    \/ \E id \in TrackIds : TaskComplete(id)
    \/ \E id \in TrackIds : TaskBlocked(id)
    \/ StatusReport
    \/ CheckIssues
    \/ Tick

TrackerSpec == TrackerInit /\ [][TrackerNext]_vars

\* ------------------------------------------- graph notions used by claims
IdsOf(p) == {p[k].task_id : k \in DOMAIN p}

UniqueIds(p) == \A j, k \in DOMAIN p : p[j].task_id = p[k].task_id => j = k

\* ids named by the dependency lists of the tasks whose id is in S
DirectDeps(p, S) ==
    UNION {Range(p[k].dependencies) : k \in {j \in DOMAIN p : p[j].task_id \in S}}

RECURSIVE DepClosure(_, _)
DepClosure(p, S) ==
    LET N == S \cup DirectDeps(p, S)
    IN  IF N = S THEN S ELSE DepClosure(p, N)

\* every id the task(s) called id depend on, directly or not
Reachable(p, id) == DepClosure(p, DirectDeps(p, {id}))

OnCycle(p, id) == id \in Reachable(p, id)

HasCycle(p) == \E id \in IdsOf(p) : OnCycle(p, id)

Resolved(p) == DirectDeps(p, IdsOf(p)) \subseteq IdsOf(p)

HasStructuralError(p) == ~UniqueIds(p) \/ ~Resolved(p) \/ HasCycle(p)

ValidGraph(p) == ~HasStructuralError(p)

Terminal == {COMPLETED, FAILED, BLOCKED}

InProgress == {t \in Tasks : status[t] = IN_PROGRESS}

\* the wave a dispatched task was part of
WaveOf(t) == CHOOSE w \in DOMAIN waves : t \in Range(waves[w])

Dispatched == UNION {Range(waves[w]) : w \in DOMAIN waves}

\* ------------------------------------------------ the scheduler under fairness
\* The event loop keeps running the coroutines that can run and every task
\* execution returns or raises: a step that stays possible is taken.  The
\* plans are those without duplicate id, dangling dependency or cycle.
FairInit == Init /\ ValidGraph(plan)

FairSpec == FairInit /\ [][Next]_vars /\ WF_vars(Next)

\* the same for every plan tried, structurally valid or not
LiveSpec == Init /\ [][Next]_vars /\ WF_vars(Next)

\* --------------------------------------------- the scheduler when cancelled
\* The loop 259-296 reads no cancellation flag; a run can only be cancelled
\* as any coroutine can, and it is suspended only in the await of gather
\* (273-276).  Cancelling it there cancels the coroutines of the batch that
\* have not finished, and CancelledError leaves the function: the for loop
\* 279-296 is not reached and nothing is returned.
Cancel ==
    /\ pc = "gather"
    /\ batch_results' = [k \in DOMAIN batch_results |->
                            IF batch_results[k] \in Outcomes
                            THEN batch_results[k] ELSE "cancelled"]
    /\ pc' = "cancelled"
    /\ result' = [status |-> "CancelledError"]
    /\ UNCHANGED <<plan, max_concurrent, status, remaining_tasks,
                   completed_tasks, failed_tasks, ready, batch_tasks, waves,
                   outcome, hookVars, trackVars, flowVars, sdkVars>>

CancelNext == Next \/ Cancel

CancelSpec == Init /\ [][CancelNext]_vars

\* ------------------------------- the scheduler with the tracker of src/
\* _execute_task (307-354) with self.progress_tracker an instance of
\* ProgressTracker of progress-tracker.py, whose track_* methods are plain
\* functions returning None.  Line 311 sets the status; line 315 calls
\* track_task_start, which runs and saves, and then awaits its value None:
\* "await None" raises TypeError before the try of 321 is entered, so the
\* coroutine ends with an exception without having been suspended, and
\* neither the agent nor track_task_completion nor track_task_blocked is
\* reached.  a is task.assigned_agent.value.
ExecuteTask(k, a) ==
    /\ pc = "gather"
    /\ k \in DOMAIN batch_tasks
    /\ batch_results[k] = "unstarted"
    /\ \A j \in 1..(k - 1) : batch_results[j] # "unstarted"
    /\ status' = [status EXCEPT ![batch_tasks[k]] = IN_PROGRESS]
    /\ progress' = track_task_start(progress, plan[batch_tasks[k]].task_id, a)
    /\ batch_results' = [batch_results EXCEPT ![k] = "exception"]
    /\ outcome' = [outcome EXCEPT ![batch_tasks[k]] = "exception"]
    /\ UNCHANGED <<plan, max_concurrent, remaining_tasks, completed_tasks,
                   failed_tasks, ready, batch_tasks, pc, result, waves,
                   hookVars, now, action, output, calls, flowVars, sdkVars>>

RunNext ==
    \/ StartWave
    \/ \E k \in 1..MaxTasks, a \in Agents : ExecuteTask(k, a)
    \/ ProcessResults
    \/ Stalled
    \/ Return

RunSpec == Init /\ [][RunNext]_vars


\* ------------------------------------------- execute_workflow (130-167)
\* What the agents answer is not decided by the orchestrator (the shipped
\* _invoke_claude_code_agent, 387-404, is a placeholder whose answer has no
\* "plan", so that planning returns None); every answer is tried.
WorkflowInit ==
    /\ plan = <<>>
    /\ max_concurrent \in 1..MaxLimit
    /\ status = <<>>
    /\ remaining_tasks = <<>>
    /\ completed_tasks = <<>>
    /\ failed_tasks = <<>>
    /\ ready = <<>>
    /\ batch_tasks = <<>>
    /\ batch_results = <<>>
    /\ pc = "idle"
    /\ result = NoResult
    /\ waves = <<>>
    /\ outcome = <<>>
    /\ HookIdle
    /\ TrackIdle
    /\ SdkIdle
    /\ wpc = "planning"
    /\ trace = <<>>
    /\ plan_result = "none"
    /\ review_result = "none"
    /\ workflow_result = NoResult

\* the returns at 139 and 144 and in the except clause 160-167
Failed(error) == [status |-> "failed", error |-> error]

\* _execute_planning_phase (169-219) and the test at 138: a plan is
\* returned, its tasks created PENDING (190-201), or None is (the answer is
\* not a success, or an exception was caught at 216).
PlanningPhase ==
    /\ wpc = "planning"
    /\ trace' = Append(trace, "planning")
    /\ \/ /\ \E n \in 0..MaxFlowTasks :
                plan' \in Plans(n, SchedDepLists(n), MaxEdges)
          /\ status' = [t \in DOMAIN plan' |-> PENDING]
          /\ outcome' = [t \in DOMAIN plan' |-> "none"]
          /\ plan_result' = "plan"
          /\ wpc' = "review"
          /\ UNCHANGED workflow_result
       \/ /\ plan_result' = "None"
          /\ wpc' = "returned"
          /\ workflow_result' = Failed("Planning phase failed")
          /\ UNCHANGED <<plan, status, outcome>>
    /\ UNCHANGED <<max_concurrent, remaining_tasks, completed_tasks,
                   failed_tasks, ready, batch_tasks, batch_results, pc, result,
                   waves, review_result, hookVars, trackVars, sdkVars>>

\* what review_result["status"] can be: the reviewer's verdicts, the
\* placeholder's "success", and "failed" from the except clause (244-246)
ReviewStatuses == {"approved", "rejected", "success", "failed"}

\* faulty variant of PlanReviewPhase: the status of the review is not tested
PlanReviewPhase_unconditional(rs) ==
    /\ wpc = "review"
    /\ review_result' = rs
    /\ trace' = trace \o <<"review", "implementation">>
    /\ wpc' = "implementation"
    /\ remaining_tasks' = [k \in DOMAIN plan |-> k]
    /\ pc' = "loop"
    /\ UNCHANGED workflow_result
    /\ UNCHANGED <<plan, max_concurrent, status, completed_tasks, failed_tasks,
                   ready, batch_tasks, batch_results, result, waves, outcome,
                   plan_result, hookVars, trackVars, sdkVars>>

\* _execute_plan_review_phase (221-246) and the test at 143; if the review
\* is approved, _execute_implementation_phase is entered (147, 247-257).
PlanReviewPhase(rs) ==
    /\ wpc = "review"
    /\ review_result' = rs
    /\ IF rs # "approved"
       THEN /\ trace' = Append(trace, "review")
            /\ wpc' = "returned"
            /\ workflow_result' = Failed("Plan review failed")
            /\ UNCHANGED <<remaining_tasks, pc>>
       ELSE /\ trace' = trace \o <<"review", "implementation">>
            /\ wpc' = "implementation"
            /\ remaining_tasks' = [k \in DOMAIN plan |-> k]
            /\ pc' = "loop"
            /\ UNCHANGED workflow_result
    /\ UNCHANGED <<plan, max_concurrent, status, completed_tasks, failed_tasks,
                   ready, batch_tasks, batch_results, result, waves, outcome,
                   plan_result, hookVars, trackVars, sdkVars>>

\* the steps of _execute_implementation_phase, awaited at 147
ImplementationPhase ==
    /\ wpc = "implementation"
    /\ Next

\* an exception raised while the result is built (304) is caught at 160
ImplementationRaises ==
    /\ wpc = "implementation"
    /\ pc = "done"
    /\ result.status = "ZeroDivisionError"
    /\ wpc' = "returned"
    /\ workflow_result' = Failed("division by zero")
    /\ UNCHANGED <<plan, schedVars, hookVars, trackVars, sdkVars, trace,
                   plan_result, review_result>>

\* _execute_qa_phase (356-385), awaited at 150 once the implementation
\* phase has returned its result; an exception of a reviewer agent is caught
\* at 160.
QaPhase(raises) ==
    /\ wpc = "implementation"
    /\ pc = "done"
    /\ result.status # "ZeroDivisionError"
    /\ trace' = Append(trace, "qa")
    /\ IF raises
       THEN /\ wpc' = "returned"
            /\ workflow_result' = Failed("exception")
       ELSE /\ wpc' = "report"
            /\ UNCHANGED workflow_result
    /\ UNCHANGED <<plan, schedVars, hookVars, trackVars, sdkVars, plan_result,
                   review_result>>

\* _generate_workflow_report (475-512), awaited at 153, and the return at
\* 158; an exception while the files are written is caught at 160.
WorkflowReport(raises) ==
    /\ wpc = "report"
    /\ trace' = Append(trace, "report")
    /\ wpc' = "returned"
    /\ workflow_result' = IF raises THEN Failed("exception")
                          ELSE [status |-> "completed"]
    /\ UNCHANGED <<plan, schedVars, hookVars, trackVars, sdkVars, plan_result,
                   review_result>>

WorkflowNext ==
    \/ PlanningPhase
    \/ \E rs \in ReviewStatuses : PlanReviewPhase(rs)
    \/ ImplementationPhase
    \/ ImplementationRaises
    \/ \E raises \in BOOLEAN : QaPhase(raises)
    \/ \E raises \in BOOLEAN : WorkflowReport(raises)

WorkflowSpec == WorkflowInit /\ [][WorkflowNext]_vars


\* ------------------- claude-code-sdk-client.py: invoke_agent_with_hooks
\* self.agents (38): the agents whose configuration was loaded
loaded_agents == {"planner"}

AgentNames == {"planner", "ghost"}

HookScripts == {"plan-validation.py", "progress-tracker.py"}

HookLists == UNION {[1..n -> HookScripts] : n \in 0..MaxHooks}

\* What running a hook script can do (391-429): print a JSON object with a
\* true "allow", with a false one, or without "allow", print text that is
\* not JSON, print JSON that is not an object, end with a return code other
\* than 0, or not start at all.
HookBehaviours == {"allow", "deny", "no_verdict", "not_json", "not_object",
                   "exit_nonzero", "not_started"}

\* _execute_hook (374-429).  result.get on JSON that is not an object
\* raises AttributeError, which the except clause at 423 catches.
execute_hook(hook_script, b) ==
    CASE b = "allow"        -> [hook |-> hook_script, status |-> "success", allow |-> TRUE]
      [] b = "deny"         -> [hook |-> hook_script, status |-> "success", allow |-> FALSE]
      [] b = "no_verdict"   -> [hook |-> hook_script, status |-> "success", allow |-> TRUE]
      [] b = "not_json"     -> [hook |-> hook_script, status |-> "success", allow |-> TRUE]
      [] b = "not_object"   -> [hook |-> hook_script, status |-> "error", allow |-> FALSE]
      [] b = "exit_nonzero" -> [hook |-> hook_script, status |-> "error", allow |-> FALSE]
      [] b = "not_started"  -> [hook |-> hook_script, status |-> "error", allow |-> FALSE]

\* invoke_agent_with_hooks has been called (314-337), for every list of
\* hooks and every agent name tried
SdkInit ==
    /\ plan = <<>>
    /\ SchedIdle
    /\ HookIdle
    /\ TrackIdle
    /\ FlowIdle
    /\ pre_hooks \in HookLists
    /\ post_hooks \in HookLists
    /\ invoked_agent \in AgentNames
    /\ hook_results = NoHookResults
    /\ agent_result = NoResult
    /\ invocations = <<>>
    /\ hpc = "pre"
    /\ response = NoResult

Invoked(kind, name, b) == [kind |-> kind, name |-> name, behaviour |-> b]

\* faulty variant of PreHook: hook_result["allow"] is not tested
PreHook_unchecked(b) ==
    /\ hpc = "pre"
    /\ Len(hook_results.pre_hooks) < Len(pre_hooks)
    /\ LET hook == pre_hooks[Len(hook_results.pre_hooks) + 1]
       IN  /\ hook_results' = [hook_results EXCEPT
                                 !.pre_hooks = Append(@, execute_hook(hook, b))]
           /\ invocations' = Append(invocations, Invoked("pre", hook, b))
    /\ UNCHANGED <<plan, schedVars, hookVars, trackVars, flowVars, pre_hooks,
                   post_hooks, invoked_agent, agent_result, hpc, response>>

\* one pass of the loop over pre_hooks (341-352): the next hook is run and
\* its result appended; unless it allows, the call returns "blocked".
PreHook(b) ==
    /\ hpc = "pre"
    /\ Len(hook_results.pre_hooks) < Len(pre_hooks)
    /\ LET hook        == pre_hooks[Len(hook_results.pre_hooks) + 1]
           hook_result == execute_hook(hook, b)
       IN  /\ hook_results' = [hook_results EXCEPT
                                 !.pre_hooks = Append(@, hook_result)]
           /\ invocations' = Append(invocations, Invoked("pre", hook, b))
           /\ IF ~hook_result.allow
              THEN /\ hpc' = "returned"
                   /\ response' = [status |-> "blocked"]
              ELSE UNCHANGED <<hpc, response>>
    /\ UNCHANGED <<plan, schedVars, hookVars, trackVars, flowVars, pre_hooks,
                   post_hooks, invoked_agent, agent_result>>

\* await self.invoke_agent (355; 103-150) after the last pre-hook: an
\* unknown agent raises ValueError (121), caught at 366; otherwise the
\* agent's answer has status st.  Without post-hooks the answer is returned
\* at once (364-365).
InvokeAgent(st) ==
    /\ hpc = "pre"
    /\ Len(hook_results.pre_hooks) = Len(pre_hooks)
    /\ invocations' = Append(invocations, Invoked("agent", invoked_agent, "agent"))
    /\ IF invoked_agent \notin loaded_agents
       THEN /\ hpc' = "returned"
            /\ response' = [status |-> "error"]
            /\ UNCHANGED agent_result
       ELSE /\ agent_result' = [status |-> st]
            /\ IF post_hooks = <<>>
               THEN /\ hpc' = "returned"
                    /\ response' = [status |-> st]
               ELSE /\ hpc' = "post"
                    /\ UNCHANGED response
    /\ UNCHANGED <<plan, schedVars, hookVars, trackVars, flowVars, pre_hooks,
                   post_hooks, invoked_agent, hook_results>>

\* one pass of the loop over post_hooks (358-361); after the last one the
\* agent's answer is returned (364-365).
PostHook(b) ==
    /\ hpc = "post"
    /\ Len(hook_results.post_hooks) < Len(post_hooks)
    /\ LET hook == post_hooks[Len(hook_results.post_hooks) + 1]
       IN  /\ hook_results' = [hook_results EXCEPT
                                 !.post_hooks = Append(@, execute_hook(hook, b))]
           /\ invocations' = Append(invocations, Invoked("post", hook, b))
    /\ IF Len(hook_results.post_hooks) + 1 = Len(post_hooks)
       THEN /\ hpc' = "returned"
            /\ response' = [status |-> agent_result.status]
       ELSE UNCHANGED <<hpc, response>>
    /\ UNCHANGED <<plan, schedVars, hookVars, trackVars, flowVars, pre_hooks,
                   post_hooks, invoked_agent, agent_result>>

SdkNext ==
    \/ \E b \in HookBehaviours : PreHook(b)
    \/ \E st \in {"success", "error"} : InvokeAgent(st)
    \/ \E b \in HookBehaviours : PostHook(b)

SdkSpec == SdkInit /\ [][SdkNext]_vars


\* ------------------------------------------------------------------ claims

\* C1: a task's status becomes IN_PROGRESS only in a step taken while every
\* id of its dependency list is the id of a task that is already COMPLETED
\* (so if B depends on A, B never starts before A has completed).
C1_StartOnlyAfterDependenciesCompleted ==
    [][\A t \in Tasks :
         (status[t] # IN_PROGRESS /\ status'[t] = IN_PROGRESS) =>
            \A d \in Range(plan[t].dependencies) :
               \E a \in Tasks : plan[a].task_id = d /\ status[a] = COMPLETED]_vars

\* C1 witness: a task that has dependencies is IN_PROGRESS.
C1_Witness ==
    \E t \in Tasks : status[t] = IN_PROGRESS /\ plan[t].dependencies # <<>>

\* C2 (as claimed): when the loop has ended every task is COMPLETED, FAILED
\* or BLOCKED; stated for structurally valid plans, where it already fails.
C2_AllTerminalAtEnd ==
    (pc = "done" /\ ValidGraph(plan)) => \A t \in Tasks : status[t] \in Terminal

\* C3: at no moment are more than max_concurrent tasks IN_PROGRESS; a wave
\* holds at most max_concurrent tasks and only tasks of the wave being
\* awaited are IN_PROGRESS.
C3_ConcurrencyBound ==
    /\ Cardinality(InProgress) <= max_concurrent
    /\ Len(batch_tasks) <= max_concurrent
    /\ InProgress # {} => (pc = "gather" /\ InProgress \subseteq Range(batch_tasks))

\* C3 witness: more tasks are ready than the limit allows and exactly
\* max_concurrent of them are IN_PROGRESS.
C3_Witness ==
    /\ pc = "gather"
    /\ Cardinality(InProgress) = max_concurrent
    /\ Len(ready_tasks(remaining_tasks, completed_tasks)) > max_concurrent

\* C4 (as claimed): when the loop stops because nothing is ready, every task
\* still in remaining_tasks is BLOCKED; stated for structurally valid plans
\* (a failed task with a dependent), where it already fails.
C4_StalledTasksBlocked ==
    (pc = "done" /\ ValidGraph(plan)) =>
        \A k \in DOMAIN remaining_tasks : status[remaining_tasks[k]] = BLOCKED

\* A task none of whose direct or indirect dependencies is missing, on a
\* cycle or the id of a task that did not succeed: no dependency path leads
\* from it to a failure.
Unaffected(b) ==
    /\ ~OnCycle(plan, plan[b].task_id)
    /\ \A d \in Reachable(plan, plan[b].task_id) :
          /\ d \in IdsOf(plan)
          /\ ~OnCycle(plan, d)
          /\ \A a \in Tasks :
                plan[a].task_id = d => outcome[a] \notin {"failure", "exception"}

\* C5: failure isolation.  At the end of a run every task with no dependency
\* path to a task that failed (returned a failure or raised) has been
\* executed, and is COMPLETED if its own execution succeeded, whatever
\* happened to the other tasks.
C5_FailureIsolation ==
    pc = "done" =>
        \A b \in Tasks :
            Unaffected(b) =>
                /\ outcome[b] # "none"
                /\ outcome[b] = "success" => status[b] = COMPLETED

\* C5 witness: task a raised and is FAILED; b1 ran in a's wave and b2 in a
\* later wave, neither depends on a, and both are COMPLETED.
C5_Witness ==
    /\ pc = "done"
    /\ \E a, b1, b2 \in Tasks :
          /\ outcome[a] = "exception" /\ status[a] = FAILED
          /\ status[b1] = COMPLETED /\ status[b2] = COMPLETED
          /\ Unaffected(b1) /\ Unaffected(b2)
          /\ WaveOf(b1) = WaveOf(a)
          /\ WaveOf(b2) > WaveOf(a)

\* C6 (as claimed): if the plan has a structural error (duplicate id,
\* dangling dependency or cycle) no task ever leaves PENDING.
C6_NoExecutionOnStructuralError ==
    HasStructuralError(plan) => \A t \in Tasks : status[t] = PENDING

\* C7 (as claimed): for a plan with a cycle the hook reports at least one
\* task that lies on a cycle; stated for plans with unique ids and no
\* dangling dependency, where it already fails.
C7_CycleCheckReportsTaskOnCycle ==
    (vpc = "validated" /\ UniqueIds(plan) /\ Resolved(plan) /\ HasCycle(plan)) =>
        \E k \in DOMAIN errors : OnCycle(plan, errors[k].task_id)

\* C8: for an acyclic plan with unique ids and no dangling dependency the
\* hook's error list is empty (and it allows the plan), for every
\* declaration order.
C8_ValidPlanNoErrors ==
    (vpc = "validated" /\ ValidGraph(plan)) => (errors = <<>> /\ allow)

\* C8 witness: a validated plan of three tasks in which one task is reached
\* along two dependency paths (1 or 3 lists two dependencies, one of which
\* depends on the other) and nothing is reported.
C8_Witness ==
    /\ vpc = "validated"
    /\ ValidGraph(plan)
    /\ errors = <<>>
    /\ \E t, u \in DOMAIN plan :
          /\ Len(plan[t].dependencies) = 2
          /\ plan[t].dependencies[1] = plan[u].task_id
          /\ plan[u].dependencies = <<plan[t].dependencies[2]>>

\* C9 (as claimed): the error list holds one duplicate-id error per repeated
\* occurrence of a task id; stated for plans without cycle or dangling
\* dependency.
C9_DuplicateIdsReported ==
    (vpc = "validated" /\ Resolved(plan) /\ ~HasCycle(plan)) =>
        Cardinality({k \in DOMAIN errors : errors[k].kind = "duplicate"})
            = Len(plan) - Cardinality(IdsOf(plan))

\* C10 (as claimed): for every task that lists a dependency id no task has,
\* the error list holds an error naming that task; stated for plans with
\* unique ids and no cycle.
C10_DanglingDependenciesReported ==
    (vpc = "validated" /\ UniqueIds(plan) /\ ~HasCycle(plan)) =>
        \A t \in DOMAIN plan :
            ~(Range(plan[t].dependencies) \subseteq IdsOf(plan)) =>
                \E k \in DOMAIN errors : errors[k].task_id = plan[t].task_id

\* ------------------------------------------- claims on readiness and waves
\* the tasks of remaining_tasks every dependency id of which is the id of a
\* task of completed_tasks
ReadySet ==
    {t \in Range(remaining_tasks) :
        \A d \in Range(plan[t].dependencies) :
            \E c \in Range(completed_tasks) : plan[c].task_id = d}

\* the readiness test has just been evaluated on the current lists
ReadyEvaluated == pc = "gather" \/ (pc = "done" /\ remaining_tasks # <<>>)

PositionIn(seq, x) == CHOOSE k \in DOMAIN seq : seq[k] = x

\* C11: whenever the ready list has been computed for a wave it holds, each
\* once, exactly the remaining tasks all of whose dependency ids are ids of
\* completed tasks (a task without dependencies is always among them), in
\* the order in which they stand in remaining_tasks.
C11_ReadyListIsSatisfiedSublist ==
    ReadyEvaluated =>
        /\ Range(ready) = ReadySet
        /\ Cardinality(Range(ready)) = Len(ready)
        /\ \A t \in Range(remaining_tasks) :
              plan[t].dependencies = <<>> => t \in Range(ready)
        /\ \A i, j \in DOMAIN ready :
              i < j => PositionIn(remaining_tasks, ready[i])
                          < PositionIn(remaining_tasks, ready[j])

\* C11 witness: a later wave in which a task with dependencies is ready
\* while another remaining task is not.
C11_Witness ==
    /\ pc = "gather"
    /\ Len(waves) >= 2
    /\ \E t \in Range(ready) : plan[t].dependencies # <<>>
    /\ \E u \in Range(remaining_tasks) : u \notin Range(ready)

\* C12: no ready task is in the wave while a ready task declared earlier is
\* left out, and when more tasks are ready than max_concurrent the wave
\* holds exactly max_concurrent tasks (otherwise all the ready ones).
C12_EarliestDeclaredRunFirst ==
    pc = "gather" =>
        /\ Range(batch_tasks) \subseteq ReadySet
        /\ \A b \in Range(batch_tasks) :
              \A r \in ReadySet \ Range(batch_tasks) : b < r
        /\ Cardinality(Range(batch_tasks))
              = Min(max_concurrent, Cardinality(ReadySet))

\* C12 witness: more tasks are ready than the limit and one of them waits.
C12_Witness ==
    /\ pc = "gather"
    /\ Cardinality(ReadySet) > max_concurrent
    /\ \E r \in ReadySet : r \notin Range(batch_tasks)
    /\ \E b \in Range(batch_tasks) : status[b] = IN_PROGRESS

\* The waves a run must go through when they depend on nothing but the plan,
\* the limit and the outcome of each task: rem and comp are the sets of
\* tasks still to run and of tasks that succeeded.
RECURSIVE ExpectedWaves(_, _, _)
ExpectedWaves(rem, comp, acc) ==
    LET ids   == {plan[c].task_id : c \in comp}
        rdy   == {t \in rem : Range(plan[t].dependencies) \subseteq ids}
        batch == Take(SortedSeq(rdy), max_concurrent)
    IN  IF rdy = {} THEN acc
        ELSE ExpectedWaves(rem \ Range(batch),
                           comp \cup {b \in Range(batch) : outcome[b] = "success"},
                           Append(acc, batch))

RECURSIVE Flatten(_)
Flatten(ws) == IF ws = <<>> THEN <<>> ELSE Head(ws) \o Flatten(Tail(ws))

Succeeded(t) == outcome[t] = "success"

DidNotSucceed(t) == outcome[t] # "success"

\* C13: determinism.  At the end of a run the sequence of waves and the
\* order of the completed and failed lists (also as returned) are the values
\* of a function of the plan, the limit and the outcome of each task alone,
\* so any two runs that agree on these agree on the waves and on both
\* lists, in whatever order the tasks of a wave finished.
C13_WavesAndListsDetermined ==
    pc = "done" =>
        /\ waves = ExpectedWaves(Tasks, {}, <<>>)
        /\ completed_tasks = SelectSeq(Flatten(waves), Succeeded)
        /\ failed_tasks = SelectSeq(Flatten(waves), DidNotSucceed)
        /\ Tasks # {} =>
              /\ result.completed_tasks = completed_tasks
              /\ result.failed_tasks = failed_tasks

\* C13 witness: a finished run of at least two waves, one of them with a
\* task that succeeded and a task that failed, and two completed tasks.
C13_Witness ==
    /\ pc = "done"
    /\ Len(waves) >= 2
    /\ Len(completed_tasks) >= 2
    /\ \E w \in DOMAIN waves :
          \E t, u \in Range(waves[w]) : Succeeded(t) /\ outcome[u] = "failure"

\* tasks A and B without dependencies, C depending on A and B, limit 2
ScenarioABC ==
    /\ plan = <<[task_id |-> 1, dependencies |-> <<>>],
                [task_id |-> 2, dependencies |-> <<>>],
                [task_id |-> 3, dependencies |-> <<1, 2>>]>>
    /\ max_concurrent = 2

\* C14: with A and B without dependencies, C depending on A and B and limit
\* 2, A and B alone form wave 1; and when no execution fails the run ends
\* with the waves {A,B} then {C}, all three COMPLETED and a success rate of
\* 100 percent.
C14_ScenarioTwoWaves ==
    ScenarioABC =>
        /\ waves # <<>> => waves[1] = <<1, 2>>
        /\ (pc = "done" /\ \A t \in Tasks : outcome[t] \in {"none", "success"}) =>
              /\ waves = <<<<1, 2>>, <<3>>>>
              /\ \A t \in Tasks : status[t] = COMPLETED
              /\ result.status = "completed"
              /\ result.success_rate[1] = 100 * result.success_rate[2]

\* C14 witness: the scenario has run to its end without a failure.
C14_Witness ==
    /\ ScenarioABC
    /\ pc = "done"
    /\ \A t \in Tasks : outcome[t] = "success"

\* C15: the returned result gives as success rate 100 times the number of
\* COMPLETED tasks over the number of tasks of the plan (100 exactly when
\* all are COMPLETED), the number of tasks of the plan as total, and lists
\* holding exactly the COMPLETED and exactly the FAILED tasks.
C15_SuccessRateAndCounts ==
    (pc = "done" /\ Tasks # {}) =>
        /\ result.success_rate
              = <<100 * Cardinality({t \in Tasks : status[t] = COMPLETED}),
                  Cardinality(Tasks)>>
        /\ result.success_rate[1] = 100 * result.success_rate[2]
              <=> \A t \in Tasks : status[t] = COMPLETED
        /\ result.total_tasks = Cardinality(Tasks)
        /\ Len(result.completed_tasks)
              = Cardinality({t \in Tasks : status[t] = COMPLETED})
        /\ Range(result.completed_tasks) = {t \in Tasks : status[t] = COMPLETED}
        /\ Len(result.failed_tasks)
              = Cardinality({t \in Tasks : status[t] = FAILED})
        /\ Range(result.failed_tasks) = {t \in Tasks : status[t] = FAILED}

\* C15 witness: a finished run with a completed task, a failed task and a
\* task that never ran.
C15_Witness ==
    /\ pc = "done"
    /\ \E t, u, v \in Tasks :
          /\ status[t] = COMPLETED
          /\ status[u] = FAILED
          /\ status[v] = PENDING

\* C16 (as claimed): a run in which a task failed, raised or was left
\* unreachable ends with a returned result that has a list of completed, a
\* list of failed and a list of blocked tasks and a success rate.
C16_CompleteResultWithBlockedList ==
    (pc = "done" /\ (failed_tasks # <<>> \/ remaining_tasks # <<>>)) =>
        /\ result.status \in {"completed", "partial"}
        /\ {"completed_tasks", "failed_tasks", "blocked_tasks", "success_rate"}
              \subseteq DOMAIN result

\* the outcome of t has been produced and applied to the lists
Applied(t) ==
    /\ outcome[t] \in Outcomes
    /\ status[t] \in {COMPLETED, FAILED}
    /\ t \notin Range(remaining_tasks)
    /\ Succeeded(t) <=> t \in Range(completed_tasks)
    /\ DidNotSucceed(t) <=> t \in Range(failed_tasks)

\* C17: wave barrier.  Once the ready list of a further wave has been
\* computed, and so whenever a task of it runs, every task of every earlier
\* wave has produced its outcome and the outcome has been applied
\* (the task has left remaining_tasks and is in completed_tasks or
\* failed_tasks); between waves and at the end this holds of all waves, and
\* only tasks of the latest wave are ever IN_PROGRESS.
C17_WaveBarrier ==
    /\ \A w \in DOMAIN waves :
          (w < Len(waves) \/ pc # "gather") =>
              \A t \in Range(waves[w]) : Applied(t)
    /\ \A t \in InProgress : t \in Range(waves[Len(waves)])

\* C17 witness: a task of the second wave is running and the first wave
\* held a task that succeeded and one that did not.
C17_Witness ==
    /\ pc = "gather"
    /\ Len(waves) = 2
    /\ \E t \in Range(waves[2]) : status[t] = IN_PROGRESS
    /\ \E a, b \in Range(waves[1]) : Succeeded(a) /\ DidNotSucceed(b)

\* -------------------------------------------------- claims on the hook, ctd.
\* C19 (as claimed): every task that lies on a dependency cycle is named by
\* an error of the list; stated for plans with unique ids and no dangling
\* dependency.
C19_EveryTaskOnCycleReported ==
    (vpc = "validated" /\ UniqueIds(plan) /\ Resolved(plan)) =>
        \A id \in IdsOf(plan) :
            OnCycle(plan, id) =>
                \E k \in DOMAIN errors : errors[k] = CycleError(id)

\* the ids that lie on a common cycle with id
CycleOf(p, id) == {j \in Reachable(p, id) : id \in Reachable(p, j)}

\* the cycles of the plan that share no task, each as the set of ids on it
DisjointCycles(p) == {CycleOf(p, id) : id \in {i \in IdsOf(p) : OnCycle(p, i)}}

\* C20 (as claimed): one pass reports every independent error: for each of
\* the plan's cycles that share no task the list holds an error naming a
\* task of that cycle; stated for plans with unique ids and no dangling
\* dependency.
C20_EveryIndependentCycleReported ==
    (vpc = "validated" /\ UniqueIds(plan) /\ Resolved(plan)) =>
        \A S \in DisjointCycles(plan) :
            \E k \in DOMAIN errors : errors[k].task_id \in S

\* ------------------------------------------------- claims on the tracker
Diagnostics == {"status_report", "check_issues"}

\* C18: the diagnostics are advisory.  A call that produces a status report
\* or runs the issue check leaves the stored progress data (task records,
\* agent statistics, metrics, time of the last save) as it was, and leaves
\* the plan, the lists and the task states of the scheduler as they were.
C18_DiagnosticsChangeNothing ==
    [][action' \in Diagnostics =>
          /\ progress' = progress
          /\ UNCHANGED <<plan, schedVars>>]_vars

\* C18 witness: the issue check has just reported a long-running task and a
\* blocked count on data with two known agents.
C18_Witness ==
    /\ action = "check_issues"
    /\ output.kind = "issues"
    /\ \E k \in DOMAIN output.issues : output.issues[k].type = "long_running_task"
    /\ \E k \in DOMAIN output.issues : output.issues[k].type = "blocked_tasks"
    /\ Len(progress.agents.keys) = 2

\* ----------------------------------- claims on the application of outcomes
\* the tasks of the plan whose id is id
Carriers(id) == {a \in Tasks : plan[a].task_id = id}

\* t lists a dependency id that only failed tasks carry
DependsOnFailed(t) ==
    \E d \in Range(plan[t].dependencies) :
        /\ Carriers(d) # {}
        /\ \A a \in Carriers(d) : status[a] = FAILED

\* C21: once the outcomes of a wave have been applied, a task that succeeded
\* is COMPLETED, in completed_tasks and out of remaining_tasks; a task that
\* failed or raised is FAILED, in failed_tasks, out of remaining_tasks and
\* never in completed_tasks; and a task with a dependency id that only
\* failed tasks carry is never ready: it is in no ready list and no wave and
\* stays PENDING.
C21_OutcomeApplication ==
    /\ \A t \in Dispatched :
          (pc # "gather" \/ WaveOf(t) < Len(waves)) =>
              /\ Succeeded(t) =>
                    /\ status[t] = COMPLETED
                    /\ t \in Range(completed_tasks)
                    /\ t \notin Range(remaining_tasks)
              /\ DidNotSucceed(t) =>
                    /\ status[t] = FAILED
                    /\ t \in Range(failed_tasks)
                    /\ t \notin Range(remaining_tasks)
    /\ \A t \in Tasks :
          /\ status[t] = FAILED => t \notin Range(completed_tasks)
          /\ t \in Range(completed_tasks) => Succeeded(t)
          /\ DependsOnFailed(t) =>
                /\ status[t] = PENDING
                /\ t \notin Range(ready)
                /\ t \notin Dispatched
                /\ t \in Range(remaining_tasks)

\* C21 witness: at the end of a run one task is COMPLETED, one raised and is
\* FAILED, and a task that depends on the failed one is still PENDING.
C21_Witness ==
    /\ pc = "done"
    /\ \E a, b, t \in Tasks :
          /\ status[a] = COMPLETED
          /\ outcome[b] = "exception" /\ status[b] = FAILED
          /\ DependsOnFailed(t) /\ status[t] = PENDING

\* the tasks standing before t in seq
Before(seq, t) == {seq[j] : j \in 1..(PositionIn(seq, t) - 1)}

\* the ready tasks the limit kept out of the wave being awaited
LeftOut == Range(ready) \ Range(batch_tasks)

\* C22: a ready task the limit keeps out of a wave stays PENDING and in
\* remaining_tasks while the wave runs; when the outcomes of the wave are
\* applied it is still PENDING and in remaining_tasks, the tasks before it
\* are those that were before it less the tasks of the wave, and it is
\* ready again at the next iteration.
C22_LeftOutTaskUntouched ==
    [][pc = "gather" =>
          \A t \in LeftOut :
              /\ status[t] = PENDING
              /\ t \in Range(remaining_tasks)
              /\ status'[t] = PENDING
              /\ t \in Range(remaining_tasks')
              /\ Before(remaining_tasks', t)
                    = Before(remaining_tasks, t) \ (Range(remaining_tasks)
                                                     \ Range(remaining_tasks'))
              /\ Range(remaining_tasks) \ Range(remaining_tasks')
                    \subseteq Range(batch_tasks)
              /\ pc' = "loop" => t \in ReadySet']_vars

\* C22 witness: the outcomes of a wave have been applied and a ready task
\* that was left out of it, with an unready task before it, is PENDING.
C22_Witness ==
    /\ pc = "loop"
    /\ waves # <<>>
    /\ \E t \in LeftOut :
          /\ status[t] = PENDING
          /\ \E u \in Before(remaining_tasks, t) : u \notin Range(ready)

\* C23: the status of a task changes only from PENDING to IN_PROGRESS and
\* from IN_PROGRESS to COMPLETED, FAILED or BLOCKED; so no task is COMPLETED
\* or FAILED without having been IN_PROGRESS and a COMPLETED, FAILED or
\* BLOCKED task keeps its status.
C23_Lifecycle ==
    [][\A t \in Tasks :
          status'[t] # status[t] =>
              \/ status[t] = PENDING /\ status'[t] = IN_PROGRESS
              \/ status[t] = IN_PROGRESS /\ status'[t] \in Terminal]_vars

\* C23 witness: both a COMPLETED and a FAILED task exist while a later wave
\* is running.
C23_Witness ==
    /\ pc = "gather"
    /\ \E a, b, c \in Tasks :
          /\ status[a] = COMPLETED
          /\ status[b] = FAILED
          /\ status[c] = IN_PROGRESS

\* C24: no task is in two waves or twice in one wave, and no task of the
\* wave being dispatched has been executed before: nothing is executed
\* twice or retried.
C24_DispatchedAtMostOnce ==
    /\ \A w \in DOMAIN waves :
          /\ Cardinality(Range(waves[w])) = Len(waves[w])
          /\ \A v \in DOMAIN waves :
                v # w => Range(waves[v]) \cap Range(waves[w]) = {}
    /\ \A t \in Range(completed_tasks) \cup Range(failed_tasks) :
          /\ t \notin Range(remaining_tasks)
          /\ pc = "gather" => t \notin Range(batch_tasks)

\* C24 witness: a run has ended after three waves, one of which failed.
C24_Witness ==
    /\ pc = "done"
    /\ Len(waves) = 3
    /\ failed_tasks # <<>>

\* a task of the wave starts or finishes in this step
ExecutionStep == pc = "gather" /\ batch_results' # batch_results

\* C25: a step in which a task starts or ends its execution leaves
\* completed_tasks, failed_tasks and remaining_tasks as they are; they
\* change only in the step of the loop that applies the outcomes of a wave
\* all of whose tasks have finished.
C25_ListsOwnedByLoop ==
    [][/\ ExecutionStep =>
             UNCHANGED <<completed_tasks, failed_tasks, remaining_tasks>>
       /\ <<completed_tasks, failed_tasks, remaining_tasks>>'
             # <<completed_tasks, failed_tasks, remaining_tasks>> =>
             /\ pc = "gather" /\ pc' = "loop"
             /\ \A k \in DOMAIN batch_results : batch_results[k] \in Outcomes
             /\ UNCHANGED batch_results]_vars

\* C25 witness: a task of the wave has succeeded, another is still running,
\* and the first is not in completed_tasks yet.
C25_Witness ==
    /\ pc = "gather"
    /\ \E j, k \in DOMAIN batch_tasks :
          /\ batch_results[j] = "success"
          /\ batch_results[k] = "running"
          /\ batch_tasks[j] \notin Range(completed_tasks)
          /\ batch_tasks[j] \in Range(remaining_tasks)

\* a task the id of which t depends on, directly or not, failed or raised
FailedAbove(t) ==
    \E d \in Reachable(plan, plan[t].task_id) :
        \E a \in Carriers(d) : outcome[a] \in {"failure", "exception"}

\* C26: on a plan without structural error the run ends, and when it has
\* ended a task has not been executed if and only if a task it depends on,
\* directly or not, failed; so every task all of whose direct and indirect
\* dependencies succeed is eventually executed.
C26_FailureReachesOnlyDependents ==
    /\ <>(pc = "done")
    /\ [](pc = "done" =>
            \A t \in Tasks : outcome[t] = "none" <=> FailedAbove(t))

\* C26 witness: a run has ended in which the first task of a chain of three
\* was executed and failed and the other two were never executed, the last
\* depending on the failed one only through the middle one.
C26_Witness ==
    /\ pc = "done"
    /\ \E a, b, c \in Tasks :
          /\ outcome[a] = "failure"
          /\ plan[b].dependencies = <<plan[a].task_id>>
          /\ plan[c].dependencies = <<plan[b].task_id>>
          /\ outcome[b] = "none"
          /\ outcome[c] = "none"

\* C27 (as claimed): when a run is cancelled while a wave is running, every
\* task of that wave still produces its outcome and the outcome is applied
\* before the run stops.
C27_CancelledWaveIsRecorded ==
    pc = "cancelled" => \A t \in Range(waves[Len(waves)]) : Applied(t)

\* ------------------------------------------- claims on the tracker, ctd.
\* the ids of the task records whose status is st
Records(st) ==
    {id \in Range(progress.tasks.keys) : progress.tasks.value[id].status = st}

KnownAgents == Range(progress.agents.keys)

\* the task records of agent a whose status is st
RecordsOf(a, st) == {id \in Records(st) : progress.tasks.value[id].agent = a}

\* every task id was started once and finished at most once: the metrics
\* count the records
StartedOnceFinishedOnce ==
    /\ progress.metrics.in_progress_tasks = Cardinality(Records("in_progress"))
    /\ progress.metrics.completed_tasks = Cardinality(Records("completed"))
    /\ progress.metrics.blocked_tasks = Cardinality(Records("blocked"))

\* C28 (as claimed): for every known agent, active_tasks is the number of
\* its tasks that have started and not finished (completed or failed) and
\* completed_tasks the number of its tasks recorded as completed; stated for
\* histories in which every task id is started once and finished at most
\* once, where it already fails.
C28_RoleCountsMatchRecords ==
    StartedOnceFinishedOnce =>
        \A a \in KnownAgents :
            /\ progress.agents.value[a].active_tasks
                  = Cardinality(RecordsOf(a, "in_progress"))
            /\ progress.agents.value[a].completed_tasks
                  = Cardinality(RecordsOf(a, "completed"))

\* the latest call was the issue check
IssuesPrinted == output.kind = "issues"

ImbalanceReported ==
    \E k \in DOMAIN output.issues : output.issues[k].type = "workload_imbalance"

\* C29: the issue check reports a workload imbalance exactly when some
\* known agent has more than ImbalanceMargin active tasks more than another
\* known agent, and so none when no agent is known; it reports it once.
C29_ImbalanceExactlyAboveMargin ==
    IssuesPrinted =>
        /\ ImbalanceReported <=>
              \E a, b \in KnownAgents :
                  progress.agents.value[a].active_tasks
                      > progress.agents.value[b].active_tasks + ImbalanceMargin
        /\ Cardinality({k \in DOMAIN output.issues :
                            output.issues[k].type = "workload_imbalance"}) <= 1

\* C29 witness: an imbalance has been reported for two agents, one with no
\* active task and one with three.
C29_Witness ==
    /\ IssuesPrinted
    /\ ImbalanceReported
    /\ \E a, b \in KnownAgents :
          /\ progress.agents.value[a].active_tasks = 3
          /\ progress.agents.value[b].active_tasks = 0

\* C30 (as claimed): a status report made when tasks are tracked gives a
\* completion rate, equal to the number of completed task records over the
\* number of task records, and no task id is in two of its lists.
C30_ReportListsAndCompletionRate ==
    (output.kind = "report" /\ progress.tasks.keys # <<>>) =>
        LET rep     == output.report
            ids(l)  == {l[k].task_id : k \in DOMAIN l}
        IN  /\ ids(rep.active_tasks) \cap ids(rep.recent_completions) = {}
            /\ ids(rep.active_tasks) \cap ids(rep.blocked_tasks) = {}
            /\ ids(rep.recent_completions) \cap ids(rep.blocked_tasks) = {}
            /\ "completion_rate" \in DOMAIN rep.timeline_analysis
            /\ rep.timeline_analysis.completion_rate
                  = <<100 * Cardinality(Records("completed")),
                      Len(progress.tasks.keys)>>

\* --------------------------------------------- claims on the loop as a whole
\* C31: for every plan, structurally valid or not, and every limit, the loop
\* ends when every execution returns; an iteration that runs a wave takes at
\* least one task out of remaining_tasks, any other iteration leaves the
\* loop, and there are never more waves than tasks.
C31_LoopTerminates ==
    /\ <>(pc = "done")
    /\ [](Len(waves) <= Len(plan))
    /\ [][/\ (pc = "gather" /\ pc' # "gather") =>
                (pc' = "loop" /\ Len(remaining_tasks') < Len(remaining_tasks))
          /\ pc = "loop" => pc' \in {"gather", "done"}]_vars

\* C31 witness: a run of a plan with a structural error has ended after as
\* many waves as it executed tasks, with a task left over.
C31_Witness ==
    /\ pc = "done"
    /\ HasStructuralError(plan)
    /\ Len(waves) = 2
    /\ Len(remaining_tasks) = 1

NoRepeats(seq) == Cardinality(Range(seq)) = Len(seq)

\* C32: whenever the loop is at the head of an iteration or has ended (and
\* also while a wave runs), completed_tasks, failed_tasks and
\* remaining_tasks hold no task twice, share no task and together hold
\* exactly the tasks of the plan.
C32_ListsPartitionThePlan ==
    /\ NoRepeats(completed_tasks)
    /\ NoRepeats(failed_tasks)
    /\ NoRepeats(remaining_tasks)
    /\ Range(completed_tasks) \cap Range(failed_tasks) = {}
    /\ Range(completed_tasks) \cap Range(remaining_tasks) = {}
    /\ Range(failed_tasks) \cap Range(remaining_tasks) = {}
    /\ Range(completed_tasks) \cup Range(failed_tasks) \cup Range(remaining_tasks)
          = Tasks

\* C32 witness: between two waves each of the three lists holds a task.
C32_Witness ==
    /\ pc = "loop"
    /\ completed_tasks # <<>>
    /\ failed_tasks # <<>>
    /\ remaining_tasks # <<>>

\* C33 (as claimed): the result has status "completed" only if every task
\* of the plan is COMPLETED, and status "partial" whenever a task is not.
C33_CompletedOnlyIfAllCompleted ==
    (pc = "done" /\ Tasks # {}) =>
        /\ result.status = "completed" => \A t \in Tasks : status[t] = COMPLETED
        /\ (\E t \in Tasks : status[t] # COMPLETED) => result.status = "partial"

\* C39 (as claimed): for a plan without tasks the phase returns a result
\* with no completed and no failed task.
C39_EmptyPlanReturnsResult ==
    (pc = "done" /\ Tasks = {}) =>
        /\ result.status \in {"completed", "partial"}
        /\ result.completed_tasks = <<>>
        /\ result.failed_tasks = <<>>

\* ----------------------------------------- claims on the hooks, concluded
\* C35 (as claimed): after any calls of the tracker the in_progress_tasks
\* metric is the number of task records with status in_progress and is not
\* negative, and no agent's active_tasks is negative.
C35_InProgressMetricCountsRecords ==
    /\ progress.metrics.in_progress_tasks = Cardinality(Records("in_progress"))
    /\ progress.metrics.in_progress_tasks >= 0
    /\ \A a \in KnownAgents : progress.agents.value[a].active_tasks >= 0

\* C36 (as claimed): every task named by a cycle error lies on a dependency
\* cycle; stated for plans with unique ids and no dangling dependency.
C36_ReportedTasksLieOnCycle ==
    (vpc = "validated" /\ UniqueIds(plan) /\ Resolved(plan)) =>
        \A k \in DOMAIN errors :
            errors[k].kind = "cycle" => OnCycle(plan, errors[k].task_id)

\* the tracker's record of task t of the plan has status st
RecordedAs(t, st) ==
    /\ has_key(progress.tasks, plan[t].task_id)
    /\ progress.tasks.value[plan[t].task_id].status = st

\* C34 (as claimed): when a run has ended no task is recorded in progress,
\* the in_progress_tasks metric is back at 0, and a task is recorded
\* completed exactly if the scheduler has marked it COMPLETED.
C34_TrackerAgreesWithScheduler ==
    pc = "done" =>
        /\ Records("in_progress") = {}
        /\ progress.metrics.in_progress_tasks = 0
        /\ \A t \in Tasks : RecordedAs(t, "completed") <=> status[t] = COMPLETED

\* ------------------------------------------------ claims on the workflow
PhaseOrder == <<"planning", "review", "implementation", "qa", "report">>

\* C37: the phases of execute_workflow are entered in the order planning,
\* plan review, implementation, QA, report; a task has left PENDING only if
\* planning returned a plan and the review's status was "approved"; and a
\* workflow that returned without both has returned status "failed" with
\* every task PENDING and no wave dispatched.
C37_PhasesInOrderAndGated ==
    /\ trace = Take(PhaseOrder, Len(trace))
    /\ (\E t \in Tasks : status[t] # PENDING) =>
          /\ plan_result = "plan"
          /\ review_result = "approved"
          /\ Take(trace, 3) = Take(PhaseOrder, 3)
    /\ (wpc = "returned" /\ (plan_result # "plan" \/ review_result # "approved"))
          => /\ workflow_result.status = "failed"
             /\ \A t \in Tasks : status[t] = PENDING
             /\ waves = <<>>
             /\ "implementation" \notin Range(trace)

\* C37 witness: the workflow has returned after the review of a plan of two
\* tasks was not approved.
C37_Witness ==
    /\ wpc = "returned"
    /\ plan_result = "plan"
    /\ review_result = "rejected"
    /\ Len(plan) = 2
    /\ workflow_result.status = "failed"

\* ------------------------------------------ claims on the agent invocation
InvokedAs(kind) == SelectSeq(invocations, LAMBDA e : e.kind = kind)

NamesOf(seq) == [k \in DOMAIN seq |-> seq[k].name]

\* C38: the pre-hooks are run in the order of pre_hooks, then the agent,
\* then the post-hooks in the order of post_hooks; a pre-hook that denies,
\* ends with a return code other than 0 or cannot be started is the last
\* thing invoked, and the call has returned status "blocked".
C38_HooksInOrderAndBlocking ==
    /\ invocations = InvokedAs("pre") \o InvokedAs("agent") \o InvokedAs("post")
    /\ NamesOf(InvokedAs("pre")) = Take(pre_hooks, Len(InvokedAs("pre")))
    /\ NamesOf(InvokedAs("post")) = Take(post_hooks, Len(InvokedAs("post")))
    /\ Len(InvokedAs("agent")) <= 1
    /\ InvokedAs("agent") # <<>> => Len(InvokedAs("pre")) = Len(pre_hooks)
    /\ InvokedAs("post") # <<>> => InvokedAs("agent") # <<>>
    /\ \A k \in DOMAIN invocations :
          (/\ invocations[k].kind = "pre"
           /\ invocations[k].behaviour \in {"deny", "exit_nonzero", "not_started"})
          => /\ k = Len(invocations)
             /\ hpc = "returned"
             /\ response.status = "blocked"

\* C38 witness: of two pre-hooks the first ended with a return code other
\* than 0; the call has returned "blocked" with a post-hook never run.
C38_Witness ==
    /\ hpc = "returned"
    /\ response.status = "blocked"
    /\ Len(pre_hooks) = 2
    /\ post_hooks # <<>>
    /\ Len(invocations) = 1
    /\ invocations[1].behaviour = "exit_nonzero"

====
